---- MODULE Spec2Model ----
(***************************************************************************)
(* CloudScope browser simulation (deploy/assets/js): replicas that store   *)
(* Versions, flood them to their peers over latent connections and         *)
(* acknowledge what they receive.  One action per handler: the $.get       *)
(* callbacks of Simulation.load, Simulation.clear, Replica.create,         *)
(* Replica.update, Replica.send and the setTimeout callback of             *)
(* Message.trigger, which runs Replica.recv.  Time is the clock read by    *)
(* Date.now() and used by setTimeout.                                      *)
(***************************************************************************)
EXTENDS Integers, Sequences, FiniteSets, Bags, TLC

VARIABLES
  nodes,      \* Simulation.nodes: the list of Replica objects of the run
  pending,    \* TRUE while the $.get of Simulation.load has not called back
  replicas,   \* the Replica objects ever built: ref -> [id, consistency, files, comms]
  versions,   \* the Version objects ever built, by version id
  sequence,   \* value of the module-level utils.Sequence of replica.js
  msgs,       \* pending setTimeout callbacks of Message.trigger, in the order set
  now,        \* the clock (Date.now(), timers) at the handler that ran last
  sends,      \* calls of Replica.send made by the page, not by broadcast
  loads,      \* calls of Simulation.load made so far
  carried,    \* the Version Messages built so far: a bag of <<version id, source, target>>
  report,     \* the pair of logs handed to the validator and the distances it reports
  legend,     \* the staleness figure of the legend, written by Simulation.updateState
  last        \* what the handler that ran last did (its error, the Messages it made)

vars == <<nodes, pending, replicas, versions, sequence, msgs, now, sends, loads,
          carried, report, legend, last>>

----------------------------------------------------------------------------
(* Bounds of the model *)

MaxVersions == 2   \* Versions made by create/update in a run
MaxSends    == 1   \* calls of Replica.send made by the page in a run
MaxLoads    == 2   \* calls of Simulation.load in the life of the page
MaxLogLen   == 3   \* entries of a log handed to the validator

----------------------------------------------------------------------------
(* config.js *)

consts_CONSTANT == "constant"
consts_VARIABLE == "variable"
consts_ACK == "ACK"
slowmo     == 3
default_latency == 800

(* JavaScript values *)
null       == 0          \* null / undefined / 0: the falsy value of a field
GlobalSelf == 0 - 1      \* what the free identifier `self` denotes (window.self)
undefined  == ""         \* an absent string field of the topology document
NaN        == 0 - 2      \* the number NaN

Or(a, b) == IF a = null THEN b ELSE a
OrStr(a, b) == IF a = undefined THEN b ELSE a

Max(a, b) == IF a >= b THEN a ELSE b
Range(s) == {s[i] : i \in 1..Len(s)}

----------------------------------------------------------------------------
(* The topology documents (data/simulation.json) the run may load.         *)
(* latency is <<>> when absent, <<n>> for a number, <<lo, hi>> for a pair.  *)

NodeDoc(id, consistency) == [id |-> id, consistency |-> consistency]

LinkDoc(s, t, connection, latency) ==
  [source |-> s, target |-> t, connection |-> connection, latency |-> latency]

\* one replica, no link
Solo == [nodes |-> <<NodeDoc("r0", "eventual")>>, links |-> <<>>]

\* two replicas over a variable link
Pair == [nodes |-> <<NodeDoc("r0", "strong"), NodeDoc("r1", "causal")>>,
         links |-> <<LinkDoc(0, 1, consts_VARIABLE, <<1, 2>>)>>]

\* three replicas in a line, the middle one without a consistency field
Line == [nodes |-> <<NodeDoc("r0", "strong"), NodeDoc("r1", undefined),
                     NodeDoc("r2", "eventual")>>,
         links |-> <<LinkDoc(0, 1, consts_CONSTANT, <<1>>),
                     LinkDoc(1, 2, consts_CONSTANT, <<2>>)>>]

\* three replicas in a ring
Ring == [nodes |-> <<NodeDoc("r0", "strong"), NodeDoc("r1", "causal"),
                     NodeDoc("r2", "eventual")>>,
         links |-> <<LinkDoc(0, 1, consts_CONSTANT, <<1>>),
                     LinkDoc(1, 2, consts_CONSTANT, <<1>>),
                     LinkDoc(2, 0, consts_CONSTANT, <<2>>)>>]

Topologies == {Solo, Pair, Line, Ring}

\* two replicas, the second without a consistency field, over one link of
\* the given kind and latency
LinkCase(connection, latency) ==
  [nodes |-> <<NodeDoc("r0", "causal"), NodeDoc("r1", undefined)>>,
   links |-> <<LinkDoc(0, 1, connection, latency)>>]

\* the kinds and latencies a link may give: none, a number, a [min, max] pair
Kinds == {undefined, consts_CONSTANT, consts_VARIABLE}
Latencies == {<<>>, <<2>>, <<0, 0>>, <<1, 2>>}

\* three replicas and a link whose target is no index of the node list
Malformed ==
  [nodes |-> <<NodeDoc("r0", "strong"), NodeDoc("r1", "causal"),
               NodeDoc("r2", "eventual")>>,
   links |-> <<LinkDoc(0, 1, consts_CONSTANT, <<1>>),
               LinkDoc(1, 3, consts_CONSTANT, <<1>>),
               LinkDoc(1, 2, consts_CONSTANT, <<1>>)>>]

\* a link end given as the id of the node at index i: a string key, which is
\* no index of the node list (self.nodes[key] is undefined); written as a
\* number below 0
ById(i) == 0 - 1 - i

\* two replicas over one constant link that names them by index
ByIndex == LinkCase(consts_CONSTANT, <<2>>)

\* the same document with the link naming them by id
ByIds ==
  [ByIndex EXCEPT !.links = <<LinkDoc(ById(0), ById(1), consts_CONSTANT, <<2>>)>>]

\* two replicas over one link of kind normal with a [mean, stddev] latency
Normal == LinkCase("normal", <<15, 1>>)

LinkTopologies ==
  {LinkCase(k, l) : k \in Kinds, l \in Latencies} \cup {Malformed, ByIds, Normal}

----------------------------------------------------------------------------
(* network.js: Connection *)

ConnectionInit(source, target, link) ==
  [source  |-> source,
   target  |-> target,
   type    |-> OrStr(link.connection, consts_CONSTANT),
   latency |-> IF link.latency = <<>> \/ link.latency = <<0>>
                 THEN <<default_latency>> ELSE link.latency]

\* random.randint(min, max): Math.floor(Math.random() * (max - min + 1)) + min
randint(lo, hi) ==
  LET min == Or(lo, 0)
      max == Or(hi, 1)
      w   == max - min + 1
  IN  IF w > 0 THEN min..(min + w - 1) ELSE (min + w)..min

\* Connection.getLatency: every value the call may return.  this.latency[0]
\* and this.latency[1] are undefined when the latency is a number, and the
\* product of a pair and a number is NaN
getLatency(conn) ==
  LET pair == Len(conn.latency) = 2
  IN  IF conn.type = consts_VARIABLE
        THEN {d * slowmo : d \in randint(IF pair THEN conn.latency[1] ELSE null,
                                         IF pair THEN conn.latency[2] ELSE null)}
        ELSE IF pair THEN {NaN} ELSE {conn.latency[1] * slowmo}

----------------------------------------------------------------------------
(* network.js: Message *)

VersionPayload(v) == [kind |-> "version", version |-> v]
AckPayload        == [kind |-> "ACK", version |-> null]   \* the literal recv sends

\* msg.payload == consts.ACK
IsAck(msg) == msg.payload.kind = consts_ACK

\* setTimeout(f, delay): a delay that is NaN or negative counts as 0
TimerDelay(delay) == IF delay = NaN \/ delay < 0 THEN 0 ELSE delay

\* new Message(source, target, payload, options): trigger is true by default,
\* so the timer is set on construction, at time t, and fires at t + delay
Message(source, target, payload, delay, class, t) ==
  [source |-> source, target |-> target, payload |-> payload,
   delay |-> delay, class |-> class, at |-> t, due |-> t + TimerDelay(delay)]

\* Message.clone: same payload, the clone's options default to the original's
clone(msg, source, target, delay, t) ==
  Message(source, target, msg.payload, delay, msg.class, t)

\* the timer set last fires first
NextDue_Latest(q) == Len(q)

\* index of the timer that fires next: the earliest due, the first set among equals
NextDue(q) ==
  CHOOSE i \in 1..Len(q) :
    \A j \in 1..Len(q) : q[i].due < q[j].due \/ (q[i].due = q[j].due /\ i <= j)

Remove(q, i) == SubSeq(q, 1, i - 1) \o SubSeq(q, i + 1, Len(q))

----------------------------------------------------------------------------
(* utils.js: Sequence *)

\* a next() that hands out the value without incrementing it first
SequenceNext_Stale(value) == Max(value, 1)

\* Sequence.next: this.value += 1; return this.value
SequenceNext(value) == value + 1

----------------------------------------------------------------------------
(* replica.js: Version *)

\* Version.init
VersionInit(parent, id, creator, level, created, updated, t) ==
  [parent     |-> parent,
   version    |-> id,
   creator    |-> Or(creator, null),
   level      |-> OrStr(level, undefined),
   created    |-> Or(created, t),
   updated    |-> Or(updated, null),
   replicas   |-> 1,
   replicated |-> null]

\* Version.fork: the receiver after the call (its updated is overwritten)
forkTouched(v, t) == [v EXCEPT !.updated = t]

\* fork that passes no creator and no level to the new Version
fork_NoOptions(v, id, t) ==
  VersionInit(v.version, id, null, undefined, v.created, forkTouched(v, t).updated, t)

\* fork that hands on the parent of the original instead of the original
fork_Sibling(v, id, t) ==
  VersionInit(v.parent, id, v.creator, v.level, v.created, forkTouched(v, t).updated, t)

\* fork with the fork's created read from the clock, not copied
fork_FreshCreated(v, id, t) ==
  VersionInit(v.version, id, v.creator, v.level, t, t, t)

\* Version.fork: the Version returned
fork(v, id, t) ==
  VersionInit(v.version, id, v.creator, v.level, v.created, forkTouched(v, t).updated, t)

\* addReplica without the increment
addReplica_NoCount(v, n, t) ==
  IF v.replicas = n THEN [v EXCEPT !.replicated = t] ELSE v

\* Version.addReplica(n)
addReplica(v, n, t) ==
  LET w == [v EXCEPT !.replicas = v.replicas + 1]
  IN  IF w.replicas = n THEN [w EXCEPT !.replicated = t] ELSE w

----------------------------------------------------------------------------
(* replica.js: Replica *)

\* Replica.init
ReplicaInit(node) ==
  [id          |-> node.id,
   consistency |-> OrStr(node.consistency, "strong"),
   files       |-> <<>>,
   comms       |-> <<>>]

\* a test that looks at the entry stored last only
HasFile_Latest(rep, v) == rep.files # <<>> /\ rep.files[Len(rep.files)] = v

\* this.files[version] is set
HasFile(rep, v) == \E i \in 1..Len(rep.files) : rep.files[i] = v

\* a store that keeps the new Version only
StoreFile_Replace(rep, v) == [rep EXCEPT !.files = <<v>>]

\* this.files[version] = vers
StoreFile(rep, v) ==
  IF HasFile(rep, v) THEN rep ELSE [rep EXCEPT !.files = Append(@, v)]

\* this.comms[key] is set
HasComm(rep, key) == \E i \in 1..Len(rep.comms) : rep.comms[i].key = key

\* this.comms[key]
Comm(rep, key) == rep.comms[CHOOSE i \in 1..Len(rep.comms) : rep.comms[i].key = key].conn

\* addConnection that stores the connection at the source of the link only
addConnection_OneWay(reps, r, link, peer) ==
  LET key   == reps[peer].id
      entry == [key |-> key, conn |-> ConnectionInit(r, peer, link)]
  IN  IF r > peer THEN reps
      ELSE [reps EXCEPT ![r].comms = Append(@, entry)]

\* Replica.addConnection: this.comms[replica.id] = connection (a key that is
\* already there keeps its place in the iteration order)
addConnection(reps, r, link, peer) ==
  LET key   == reps[peer].id
      entry == [key |-> key, conn |-> ConnectionInit(r, peer, link)]
  IN  [reps EXCEPT ![r].comms =
        IF HasComm(reps[r], key)
          THEN [i \in 1..Len(@) |-> IF @[i].key = key THEN entry ELSE @[i]]
          ELSE Append(@, entry)]

\* the options of send: <<>> when the caller gives no delay, <<d>> when it
\* gives the delay d
NoOptions == <<>>

\* _.defaults with the test `options.delay || latency`
defaults_Falsy(options, latency) ==
  IF options = NoOptions \/ options[1] = null THEN latency ELSE options[1]

\* _.defaults(options, {delay: latency}).delay: the default fills a key that
\* is undefined, and no other
defaults(options, latency) ==
  IF options = NoOptions THEN latency ELSE options[1]

\* Replica.send(msg, dst, options) at time t: the outcomes of the call, the
\* Message it builds or the error of conn.getLatency() on an undefined conn
send(r, payload, dst, options, t) ==
  IF HasComm(replicas[r], dst)
    THEN LET conn == Comm(replicas[r], dst)
         IN  {[err |-> "", sent |-> <<Message(r, conn.target, payload,
                                               defaults(options, d), "message", t)>>] :
                d \in getLatency(conn)}
    ELSE {[err |-> "TypeError", sent |-> <<>>]}

\* The sequences of Messages that self.send(payload, link.target.id) over the
\* connections cs[k..] can produce, one Message per connection
RECURSIVE SendAll(_, _, _, _, _)
SendAll(r, cs, k, payload, t) ==
  IF k > Len(cs) THEN {<<>>}
  ELSE {res.sent \o rest :
          res \in send(r, payload, replicas[cs[k].target].id, NoOptions, t),
          rest \in SendAll(r, cs, k + 1, payload, t)}

\* The sequences of Messages that msg.clone(self, conn.target, {delay:
\* conn.getLatency()}) can produce over the connections cs[k..]
RECURSIVE CloneAll(_, _, _, _, _)
CloneAll(r, cs, k, msg, t) ==
  IF k > Len(cs) THEN {<<>>}
  ELSE {<<clone(msg, r, cs[k].target, d, t)>> \o rest :
          d \in getLatency(cs[k]),
          rest \in CloneAll(r, cs, k + 1, msg, t)}

\* the connections of a replica in the iteration order of this.comms
Conns(rep) == [i \in 1..Len(rep.comms) |-> rep.comms[i].conn]

\* broadcast that starts at the second connection
broadcast_SkipFirst(r, v, t) ==
  SendAll(r, Conns(replicas[r]), 2, VersionPayload(v), t)

\* broadcast that goes over the connections twice
broadcast_Twice(r, v, t) ==
  {a \o b : a, b \in SendAll(r, Conns(replicas[r]), 1, VersionPayload(v), t)}

\* Replica.broadcast(version): self.send(msg, link.target.id) for every link
broadcast(r, v, t) ==
  SendAll(r, Conns(replicas[r]), 1, VersionPayload(v), t)

----------------------------------------------------------------------------
\* what a handler did: the replica it ran at, the version id it was about,
\* the Message delivered, the error thrown, the Messages built, whether a
\* Version entered a log; args holds the arguments of a call of send and the
\* document of a load
Saw(op, at, version, msg, err, sent, fresh) ==
  [op |-> op, at |-> at, version |-> version, msg |-> msg, err |-> err,
   sent |-> sent, fresh |-> fresh, args |-> <<>>]

NoMsg == Message(null, null, AckPayload, 0, "", 0)

\* the bag c with the Version Messages of sent added
RECURSIVE Carry(_, _)
Carry(c, sent) ==
  IF sent = <<>> THEN c
  ELSE LET m == Head(sent)
       IN  IF IsAck(m) THEN Carry(c, Tail(sent))
           ELSE Carry(c (+) SetToBag({<<m.payload.version, m.source, m.target>>}),
                      Tail(sent))

\* the sum of the replicaCounts of the Versions vs[v], v in files
RECURSIVE Blocks(_, _)
Blocks(vs, files) ==
  IF files = {} THEN 0
  ELSE LET v == CHOOSE x \in files : TRUE
       IN  vs[v].replicas + Blocks(vs, files \ {v})

\* Simulation.updateState: the staleness figure written to the legend, with
\* the %d of sprintf; 0 / 0 is NaN
updateState(ns, reps, vs) ==
  LET files  == UNION {Range(reps[ns[i]].files) : i \in DOMAIN ns}
      blocks == Blocks(vs, files)
      pairs  == Len(ns) * Cardinality(files)
  IN  IF pairs = 0 THEN NaN ELSE (blocks * 100) \div pairs

\* no log has been handed to the validator
NoReport == [a |-> <<>>, b |-> <<>>, done |-> FALSE, jaccard |-> <<0, 1>>, levenshtein |-> <<0, 1>>]

Init ==
  /\ nodes = <<>>
  /\ pending = TRUE
  /\ replicas = <<>>
  /\ versions = <<>>
  /\ sequence = 0
  /\ msgs = <<>>
  /\ now = 1
  /\ sends = 0
  /\ loads = 1
  /\ carried = EmptyBag
  /\ report = NoReport
  /\ legend = 0
  /\ last = Saw("init", null, null, NoMsg, "", <<>>, FALSE)

----------------------------------------------------------------------------
(* simulation.js: Simulation.load, the .done callback of $.get *)

\* the _.each over data.links, from link k on: a link whose source or target
\* is not an index of self.nodes throws (a method call on undefined) and
\* leaves the connections added so far
RECURSIVE AddLinks(_, _, _, _)
AddLinks(reps, ns, links, k) ==
  IF k > Len(links) THEN [reps |-> reps, err |-> ""]
  ELSE LET link == links[k]
           ok(x) == x \in 0..(Len(ns) - 1)
       IN  IF ~ok(link.source) \/ ~ok(link.target)
             THEN [reps |-> reps, err |-> "TypeError"]
             ELSE LET source == ns[link.source + 1]
                      target == ns[link.target + 1]
                  IN  AddLinks(addConnection(addConnection(reps, source, link, target),
                                             target, link, source),
                               ns, links, k + 1)

Load(data) ==
  /\ pending
  /\ pending' = FALSE
  /\ LET n     == Len(data.nodes)
         refs  == [i \in 1..n |-> Len(replicas) + i]
         built == replicas \o [i \in 1..n |-> ReplicaInit(data.nodes[i])]
         res   == AddLinks(built, refs, data.links, 1)
     IN  /\ nodes' = refs
         /\ replicas' = res.reps
         /\ last' = [Saw("load", null, null, NoMsg, res.err, <<>>, FALSE)
                      EXCEPT !.args = <<data>>]
  /\ UNCHANGED <<versions, sequence, msgs, now, sends, loads, carried, report, legend>>

\* the .fail callback of $.get: the error is logged, nothing is built
LoadFail ==
  /\ pending
  /\ pending' = FALSE
  /\ last' = Saw("loadfail", null, null, NoMsg, "", <<>>, FALSE)
  /\ UNCHANGED <<nodes, replicas, versions, sequence, msgs, now, sends, loads, carried, report, legend>>

\* Simulation.load called again: a new $.get is pending; the module-level
\* sequence of replica.js is the one of the runs before
Reload ==
  /\ ~pending
  /\ loads < MaxLoads
  /\ pending' = TRUE
  /\ loads' = loads + 1
  /\ last' = Saw("reload", null, null, NoMsg, "", <<>>, FALSE)
  /\ UNCHANGED <<nodes, replicas, versions, sequence, msgs, now, sends, carried, report, legend>>

\* Simulation.clear
Clear ==
  /\ nodes' = <<>>
  /\ last' = Saw("clear", null, null, NoMsg, "", <<>>, FALSE)
  /\ UNCHANGED <<pending, replicas, versions, sequence, msgs, now, sends, loads, carried, report, legend>>

----------------------------------------------------------------------------
(* replica.js: the handlers *)

\* create on replicas that share one files object: the Version enters every log
Create_SharedFiles(r) ==
  /\ sequence < MaxVersions
  /\ LET id   == SequenceNext(sequence)
         vers == VersionInit(0, id, GlobalSelf, replicas[r].consistency, null, null, now)
     IN  /\ sequence' = id
         /\ versions' = Append(versions, vers)
         /\ replicas' = [q \in DOMAIN replicas |-> StoreFile(replicas[q], id)]
         /\ legend' = updateState(nodes, replicas', versions')
         /\ \E sent \in broadcast(r, id, now) :
              /\ msgs' = msgs \o sent
              /\ carried' = Carry(carried, sent)
              /\ last' = Saw("create", r, id, NoMsg, "", sent, TRUE)
  /\ UNCHANGED <<nodes, pending, now, sends, loads, report>>

\* Replica.create, called by the click handler of a drawn replica.  The
\* function declares no `self`, so `creator: self` reads the global one.
Create(r) ==
  /\ sequence < MaxVersions
  /\ LET id   == SequenceNext(sequence)
         vers == VersionInit(0, id, GlobalSelf, replicas[r].consistency, null, null, now)
     IN  /\ sequence' = id
         /\ versions' = Append(versions, vers)
         /\ replicas' = [replicas EXCEPT ![r] = StoreFile(@, id)]
         /\ legend' = updateState(nodes, replicas', versions')
         /\ \E sent \in broadcast(r, id, now) :
              /\ msgs' = msgs \o sent
              /\ carried' = Carry(carried, sent)
              /\ last' = Saw("create", r, id, NoMsg, "", sent, TRUE)
  /\ UNCHANGED <<nodes, pending, now, sends, loads, report>>

\* Replica.update(version) when this.files[version] is undefined: vers.fork()
\* throws before anything is built
UpdateMissing(r, version) ==
  /\ ~HasFile(replicas[r], version)
  /\ last' = Saw("update", null, null, NoMsg, "TypeError", <<>>, FALSE)
  /\ UNCHANGED <<nodes, pending, replicas, versions, sequence, msgs, now, sends, loads, carried, report, legend>>

\* Replica.update(version) when the version is in this.files, in a run of at
\* most cap Versions
UpdateWithin(r, version, cap) ==
  /\ HasFile(replicas[r], version)
  /\ sequence < cap
  /\ LET id == SequenceNext(sequence)
         f  == fork(versions[version], id, now)
     IN  /\ sequence' = id
         /\ versions' = Append([versions EXCEPT ![version] = forkTouched(@, now)], f)
         /\ replicas' = [replicas EXCEPT ![r] = StoreFile(@, id)]
         /\ legend' = updateState(nodes, replicas', versions')
         /\ \E sent \in broadcast(r, id, now) :
              /\ msgs' = msgs \o sent
              /\ carried' = Carry(carried, sent)
              /\ last' = Saw("update", r, version, NoMsg, "", sent, TRUE)
  /\ UNCHANGED <<nodes, pending, now, sends, loads, report>>

UpdateFork(r, version) == UpdateWithin(r, version, MaxVersions)

Update(r, version) == UpdateMissing(r, version) \/ UpdateFork(r, version)

\* Replica.send(payload, dst, options) called by the page on replica r
Send(r, payload, dst, options) ==
  /\ sends < MaxSends
  /\ sends' = sends + 1
  /\ \E res \in send(r, payload, dst, options, now) :
       /\ msgs' = msgs \o res.sent
       /\ carried' = Carry(carried, res.sent)
       /\ last' = [Saw("send", r, payload.version, NoMsg, res.err, res.sent, FALSE)
                    EXCEPT !.args = <<payload, dst, options>>]
  /\ UNCHANGED <<nodes, pending, replicas, versions, sequence, now, loads, report, legend>>

\* recv that rebroadcasts only at a replica of strong consistency
Others_StrongOnly(rep, msg) ==
  IF rep.consistency = "strong"
    THEN SelectSeq(Conns(rep), LAMBDA conn : conn.target # msg.source)
    ELSE <<>>

\* recv that rebroadcasts nothing
Others_None(rep, msg) == <<>>

\* rebroadcast without the test on the sender
Others_All(rep, msg) == Conns(rep)

\* the connections recv rebroadcasts over: conn.target != msg.source
Others(rep, msg) ==
  SelectSeq(Conns(rep), LAMBDA conn : conn.target # msg.source)

\* recv that sends no acknowledgment
Acks_None(r, msg, t) == {[err |-> "", sent |-> <<>>]}

\* the acknowledgments recv may build: this.comms[msg.source.id].getLatency()
\* throws when the sender is no peer
Acks(r, msg, t) ==
  LET key == replicas[msg.source].id
  IN  IF HasComm(replicas[r], key)
        THEN {[err |-> "", sent |-> <<Message(r, msg.source, AckPayload, d, "response", t)>>] :
                d \in getLatency(Comm(replicas[r], key))}
        ELSE {[err |-> "TypeError", sent |-> <<>>]}

\* recv that answers an acknowledgment with an acknowledgment
RecvAck_Reply(r, msg, t) ==
  /\ IsAck(msg)
  /\ \E ack \in Acks(r, msg, t) :
       /\ msgs' = Remove(msgs, NextDue(msgs)) \o ack.sent
       /\ last' = Saw("recv", r, null, msg, ack.err, ack.sent, FALSE)
  /\ UNCHANGED <<replicas, versions, carried, legend>>

\* Replica.recv(msg) for an acknowledgment
RecvAck(r, msg, t) ==
  /\ IsAck(msg)
  /\ last' = Saw("recv", r, null, msg, "", <<>>, FALSE)
  /\ msgs' = Remove(msgs, NextDue(msgs))
  /\ UNCHANGED <<replicas, versions, carried, legend>>

\* Replica.recv(msg) for a Version this replica does not hold
RecvNew(r, msg, t) ==
  LET v == msg.payload.version
  IN  /\ ~IsAck(msg)
      /\ ~HasFile(replicas[r], v)
      /\ replicas' = [replicas EXCEPT ![r] = StoreFile(@, v)]
      /\ versions' = [versions EXCEPT ![v] = addReplica(@, Len(nodes), t)]
      /\ legend' = updateState(nodes, replicas', versions')
      /\ \E fwd \in CloneAll(r, Others(replicas[r], msg), 1, msg, t) :
         \E ack \in Acks(r, msg, t) :
           /\ msgs' = Remove(msgs, NextDue(msgs)) \o fwd \o ack.sent
           /\ carried' = Carry(carried, fwd)
           /\ last' = Saw("recv", r, v, msg, ack.err, fwd \o ack.sent, TRUE)

\* recv with addReplica moved out of the test on this.files
RecvOld_CountAgain(r, msg, t) ==
  LET v == msg.payload.version
  IN  /\ ~IsAck(msg)
      /\ HasFile(replicas[r], v)
      /\ versions' = [versions EXCEPT ![v] = addReplica(@, Len(nodes), t)]
      /\ \E ack \in Acks(r, msg, t) :
           /\ msgs' = Remove(msgs, NextDue(msgs)) \o ack.sent
           /\ last' = Saw("recv", r, v, msg, ack.err, ack.sent, FALSE)
      /\ UNCHANGED <<replicas, carried, legend>>

\* recv that sets the timer of a Version it holds again
RecvOld_Requeue(r, msg, t) ==
  LET v == msg.payload.version
  IN  /\ ~IsAck(msg)
      /\ HasFile(replicas[r], v)
      /\ msgs' = msgs
      /\ last' = Saw("recv", r, v, msg, "", <<>>, FALSE)
      /\ UNCHANGED <<replicas, versions, carried, legend>>

\* Replica.recv(msg) for a Version this replica holds already
RecvOld(r, msg, t) ==
  LET v == msg.payload.version
  IN  /\ ~IsAck(msg)
      /\ HasFile(replicas[r], v)
      /\ \E ack \in Acks(r, msg, t) :
           /\ msgs' = Remove(msgs, NextDue(msgs)) \o ack.sent
           /\ last' = Saw("recv", r, v, msg, ack.err, ack.sent, FALSE)
      /\ UNCHANGED <<replicas, versions, carried, legend>>

\* the setTimeout callback of Message.trigger: self.target.recv(self)
Deliver ==
  /\ msgs # <<>>
  /\ LET msg == msgs[NextDue(msgs)]
         t   == Max(now, msg.due)
     IN  /\ now' = t
         /\ \/ RecvAck(msg.target, msg, t)
            \/ RecvNew(msg.target, msg, t)
            \/ RecvOld(msg.target, msg, t)
  /\ UNCHANGED <<nodes, pending, sequence, sends, loads, report>>

Next ==
  \/ \E data \in Topologies : Load(data)
  \/ LoadFail
  \/ \E r \in Range(nodes) : Create(r)
  \/ \E r \in Range(nodes), version \in 1..MaxVersions : Update(r, version)
  \/ Deliver

Spec == Init /\ [][Next]_vars

\* the runs in which a timer that is set fires in the end
SpecFair == Spec /\ WF_vars(Deliver)

\* the runs in which the simulation may also be ended
NextEnd == Next \/ Clear

SpecEnd == Init /\ [][NextEnd]_vars

\* the life of a page that ends runs and loads new ones
NextRuns ==
  \/ \E data \in Topologies : Load(data)
  \/ LoadFail
  \/ Clear
  \/ Reload
  \/ \E r \in Range(nodes) : Create(r)
  \/ Deliver

SpecRuns == Init /\ [][NextRuns]_vars

\* the runs over the documents that vary the fields of a link
NextLinks ==
  \/ \E data \in LinkTopologies : Load(data)
  \/ LoadFail
  \/ \E r \in Range(nodes) : Create(r)
  \/ Deliver

SpecLinks == Init /\ [][NextLinks]_vars

----------------------------------------------------------------------------
(* The consistency validator: its pairwise metrics, as the report describes *)
(* them.  A distance is a fraction <<numerator, denominator>>.              *)

\* the version ids of a log, duplicates collapsed
Entries(log) == {log[i] : i \in DOMAIN log}

Min3(a, b, c) == IF a <= b /\ a <= c THEN a ELSE IF b <= c THEN b ELSE c

\* an edit distance that looks at the lengths of the logs only
Levenshtein_Lengths(a, b) == Max(Len(a), Len(b)) - Min3(Len(a), Len(b), Len(a))

\* Levenshtein (edit) distance of two logs as sequences of version ids
RECURSIVE Levenshtein(_, _)
Levenshtein(a, b) ==
  IF a = <<>> THEN Len(b)
  ELSE IF b = <<>> THEN Len(a)
  ELSE Min3(Levenshtein(Tail(a), b) + 1,
            Levenshtein(a, Tail(b)) + 1,
            Levenshtein(Tail(a), Tail(b)) + (IF Head(a) = Head(b) THEN 0 ELSE 1))

\* Jaccard distance: 1 - |A n B| / |A u B|; two empty logs are identical
Jaccard(a, b) ==
  LET u == Entries(a) \cup Entries(b)
      n == Entries(a) \cap Entries(b)
  IN  IF u = {} THEN <<0, 1>> ELSE <<Cardinality(u) - Cardinality(n), Cardinality(u)>>

\* the edit distance over the length of the first log
NormalizedLevenshtein_ByFirst(a, b) ==
  IF a = <<>> /\ b = <<>> THEN <<0, 1>> ELSE <<Levenshtein(a, b), Len(a)>>

\* Levenshtein distance over the length of the longer log; two empty logs
\* are identical
NormalizedLevenshtein(a, b) ==
  IF a = <<>> /\ b = <<>> THEN <<0, 1>>
  ELSE <<Levenshtein(a, b), Max(Len(a), Len(b))>>

\* the logs the validator may be handed: version ids, repeats allowed
LogIds == {1, 2, 3}
Logs == UNION {[1..k -> LogIds] : k \in 0..MaxLogLen}

\* the validator is handed two logs
InitValidate ==
  /\ nodes = <<>>
  /\ pending = TRUE
  /\ replicas = <<>>
  /\ versions = <<>>
  /\ sequence = 0
  /\ msgs = <<>>
  /\ now = 1
  /\ sends = 0
  /\ loads = 1
  /\ carried = EmptyBag
  /\ report \in {[NoReport EXCEPT !.a = a, !.b = b] : a, b \in Logs}
  /\ legend = 0
  /\ last = Saw("init", null, null, NoMsg, "", <<>>, FALSE)

\* the validator computes the two distances of the pair
Compare ==
  /\ ~report.done
  /\ report' = [report EXCEPT !.done = TRUE,
                              !.jaccard = Jaccard(report.a, report.b),
                              !.levenshtein = NormalizedLevenshtein(report.a, report.b)]
  /\ last' = Saw("compare", null, null, NoMsg, "", <<>>, FALSE)
  /\ UNCHANGED <<nodes, pending, replicas, versions, sequence, msgs, now, sends, loads,
                 carried, legend>>

SpecValidate == InitValidate /\ [][Compare]_vars

\* what the page may pass to send: a Version of the caller's log or the
\* acknowledgment, the id of a replica of the documents, no delay or a delay
Payloads(r) == {VersionPayload(v) : v \in Range(replicas[r].files)} \cup {AckPayload}
Ids == {"r0", "r1", "r2"}
Delays == {NoOptions, <<0>>, <<4>>}

\* the runs in which the page creates one Version and calls send
NextSend ==
  \/ \E data \in Topologies : Load(data)
  \/ LoadFail
  \/ \E r \in Range(nodes) : versions = <<>> /\ Create(r)
  \/ \E r \in Range(nodes), dst \in Ids, options \in Delays :
       \E payload \in Payloads(r) : Send(r, payload, dst, options)
  \/ Deliver

SpecSend == Init /\ [][NextSend]_vars

\* the runs over one replica or a line of three in which the page creates
\* one Version and then calls update, up to ForkCap Versions in all
ForkCap == MaxVersions + 1

NextForks ==
  \/ \E data \in {Solo, Line} : Load(data)
  \/ LoadFail
  \/ \E r \in Range(nodes) : versions = <<>> /\ Create(r)
  \/ \E r \in Range(nodes), version \in 1..ForkCap : UpdateWithin(r, version, ForkCap)
  \/ Deliver

SpecForks == Init /\ [][NextForks]_vars

\* three replicas in a line with the given consistency levels; over the
\* assignments below each replica takes each of the three levels
Levels ==
  {<<"strong", "causal", "eventual">>, <<"causal", "eventual", "strong">>,
   <<"eventual", "strong", "causal">>}

Levelled(a, b, c) ==
  [nodes |-> <<NodeDoc("r0", a), NodeDoc("r1", b), NodeDoc("r2", c)>>,
   links |-> <<LinkDoc(0, 1, consts_CONSTANT, <<1>>),
               LinkDoc(1, 2, consts_VARIABLE, <<1, 2>>)>>]

\* the runs over one topology under every assignment of levels
NextLevels ==
  \/ \E l \in Levels : Load(Levelled(l[1], l[2], l[3]))
  \/ LoadFail
  \/ \E r \in Range(nodes) : Create(r)
  \/ \E r \in Range(nodes), version \in 1..MaxVersions : Update(r, version)
  \/ Deliver

SpecLevels == Init /\ [][NextLevels]_vars

----------------------------------------------------------------------------
(* Properties *)

\* replica r holds version id v
InLog(r, v) == \E i \in DOMAIN replicas[r].files : replicas[r].files[i] = v

\* the replicas that hold version id v
Holders(v) == {r \in DOMAIN replicas : InLog(r, v)}

\* the replicas r has a connection to
Peers(r) == {replicas[r].comms[i].conn.target : i \in DOMAIN replicas[r].comms}

\* queue q2 is queue q without the delivered message m, followed by sent
Scheduled(q, q2, m, sent) ==
  \E i \in DOMAIN q :
    /\ q[i] = m
    /\ q2 = SubSeq(q, 1, i - 1) \o SubSeq(q, i + 1, Len(q)) \o sent

\* sent holds exactly one Message from r to each replica of targets, all
\* carrying payload
OnePerTarget(sent, r, targets, payload) ==
  /\ Len(sent) = Cardinality(targets)
  /\ \A i \in DOMAIN sent :
       /\ sent[i].source = r
       /\ sent[i].target \in targets
       /\ sent[i].payload = payload
  /\ \A i, j \in DOMAIN sent : sent[i].target = sent[j].target => i = j

\* the step is a delivery of a Version message to a replica that lacks it
NewStep == last'.op = "recv" /\ last'.version # null /\ last'.fresh

\* the step is a delivery of a Version message to a replica that holds it
DupStep == last'.op = "recv" /\ last'.version # null /\ ~last'.fresh

\* the step is a delivery of an acknowledgment
AckStep == last'.op = "recv" /\ last'.msg.payload.kind = "ACK"

\* C1: in every reachable state of a run over a fixed topology, each
\* Version's replicaCount is the number of distinct replicas whose log
\* holds the Version's id.
C1_ReplicaCountIsHolders ==
  \A v \in DOMAIN versions : versions[v].replicas = Cardinality(Holders(v))

\* a Version held by three replicas, one of which was sent it twice
C1_Witness ==
  /\ last.op = "recv" /\ last.version # null /\ ~last.fresh
  /\ Cardinality(Holders(last.version)) = 3

\* C2: recv is idempotent per Version id: a delivery of a Version message
\* adds the id to the receiver's log and adds one to the replicaCount when
\* the receiver lacks the id, and changes neither when it holds it; the id is
\* never twice in a log.
C2_RecvIdempotent ==
  [][(last'.op = "recv" /\ last'.version # null) =>
       LET r == last'.at
           v == last'.version
       IN  /\ IF InLog(r, v)
                THEN /\ replicas'[r].files = replicas[r].files
                     /\ versions'[v].replicas = versions[v].replicas
                ELSE /\ replicas'[r].files = Append(replicas[r].files, v)
                     /\ versions'[v].replicas = versions[v].replicas + 1
           /\ Cardinality({i \in DOMAIN replicas'[r].files : replicas'[r].files[i] = v}) = 1
           /\ last'.msg.target = r /\ last'.msg.payload.version = v]_vars

\* a replica with two peers was delivered an id it held already, and every
\* replica holds that id
C2_Witness ==
  /\ last.op = "recv" /\ last.version # null /\ ~last.fresh
  /\ InLog(last.at, last.version)
  /\ versions[last.version].replicas = Cardinality(DOMAIN replicas)
  /\ Cardinality(Peers(last.at)) = 2

\* C3: replicatedAt is set if and only if the number of distinct replicas
\* holding the Version's id equals the number of replicas of the topology.
C3_ReplicatedIffAllHold ==
  \A v \in DOMAIN versions :
    (versions[v].replicated # null) <=> (Cardinality(Holders(v)) = Len(nodes))

\* C4: a replica R that is delivered from S a Version it lacks stores it,
\* sends it once to each of its peers other than S and not to S, and then
\* sends one acknowledgment to S.
C4_StoreForwardAck ==
  [][NewStep =>
       LET r    == last'.at
           m    == last'.msg
           sent == last'.sent
           n    == Len(sent)
       IN  /\ ~InLog(r, last'.version)
           /\ replicas'[r].files = Append(replicas[r].files, last'.version)
           /\ last'.err = ""
           /\ n >= 1
           /\ OnePerTarget(SubSeq(sent, 1, n - 1), r, Peers(r) \ {m.source}, m.payload)
           /\ sent[n].source = r /\ sent[n].target = m.source
           /\ sent[n].payload.kind = "ACK"
           /\ Scheduled(msgs, msgs', m, sent)]_vars

\* a replica with two peers has stored a new Version, forwarded it and
\* acknowledged it
C4_Witness ==
  /\ last.op = "recv" /\ last.version # null /\ last.fresh
  /\ Len(last.sent) = 2
  /\ last.sent[1].payload.kind = "version"
  /\ last.sent[2].payload.kind = "ACK"

\* C5 as claimed: the delivery of a Version message to a replica that holds
\* the id changes no log and no replicaCount and schedules no message.
C5_DroppedSilently ==
  [][DupStep =>
       /\ replicas' = replicas
       /\ versions' = versions
       /\ Scheduled(msgs, msgs', last'.msg, <<>>)]_vars

\* C5 as amended: the delivery of a Version message to a replica that holds
\* the id changes no log and no Version and schedules no rebroadcast: the
\* one Message it schedules is an acknowledgment to the sender.
C5_DuplicateOnlyAcked ==
  [][DupStep =>
       LET sent == last'.sent
       IN  /\ replicas' = replicas
           /\ versions' = versions
           /\ Len(sent) = 1
           /\ sent[1].payload.kind = "ACK"
           /\ sent[1].source = last'.at /\ sent[1].target = last'.msg.source
           /\ Scheduled(msgs, msgs', last'.msg, sent)]_vars

\* a duplicate was delivered and its acknowledgment is in flight
C5_Witness ==
  /\ last.op = "recv" /\ last.version # null /\ ~last.fresh
  /\ Len(last.sent) = 1
  /\ \E i \in DOMAIN msgs : msgs[i] = last.sent[1] /\ msgs[i].class = "response"

\* C6: the delivery of an acknowledgment changes no log, no Version and no
\* connection, and schedules no message.
C6_AckChangesNothing ==
  [][AckStep =>
       /\ replicas' = replicas
       /\ versions' = versions
       /\ nodes' = nodes
       /\ sequence' = sequence
       /\ last'.sent = <<>>
       /\ Scheduled(msgs, msgs', last'.msg, <<>>)]_vars

\* an acknowledgment was delivered
C6_Witness ==
  /\ last.op = "recv" /\ last.msg.payload.kind = "ACK"
  /\ last.msg.class = "response"
  /\ last.sent = <<>>

\* C7: create can be called on every replica of the run, and a call adds one
\* new root Version (no parent, fresh id, replicaCount 1) to the caller's
\* log and sends it once to each peer.
C7_CreateSucceeds ==
  [][/\ \A r \in Range(nodes) : sequence < MaxVersions => ENABLED Create(r)
     /\ last'.op = "create" =>
          LET r  == last'.at
              id == last'.version
          IN  /\ last'.err = ""
              /\ id \notin DOMAIN versions
              /\ \A q \in DOMAIN replicas : ~InLog(q, id)
              /\ DOMAIN versions' = DOMAIN versions \cup {id}
              /\ versions'[id].version = id
              /\ versions'[id].parent = null
              /\ versions'[id].replicas = 1
              /\ \A v \in DOMAIN versions : versions'[v] = versions[v]
              /\ replicas' = [replicas EXCEPT ![r].files = Append(@, id)]
              /\ OnePerTarget(last'.sent, r, Peers(r), [kind |-> "version", version |-> id])
              /\ msgs' = msgs \o last'.sent]_vars

\* a replica with two peers has created a Version
C7_Witness ==
  /\ last.op = "create"
  /\ Len(last.sent) = 2
  /\ InLog(last.at, last.version)

\* C8: the Version minted by create at replica R records R as its creator and
\* R's consistency level as its level.
C8_CreatorIsCaller ==
  last.op = "create" =>
    /\ versions[last.version].creator = last.at
    /\ versions[last.version].level = replicas[last.at].consistency

C10_NotFoundError ==
  [][(last'.op = "update" /\ last'.err # "") =>
       /\ last'.err = "NotFoundError"
       /\ UNCHANGED <<nodes, pending, replicas, versions, sequence, msgs, now, sends, loads, carried, report, legend>>]_vars

\* C10, the part the code keeps: a failed update changes no log, consumes no
\* version id and schedules no message.
C10_FailedUpdateHasNoEffect ==
  [][(last'.op = "update" /\ last'.err # "") =>
       UNCHANGED <<nodes, pending, replicas, versions, sequence, msgs, now, sends, loads, carried, report, legend>>]_vars

\* C11: forking never mutates the forked-from Version: a successful
\* update(versionId) leaves every field of every Version that existed before
\* the call as it was.
C11_ForkLeavesOriginal ==
  [][(last'.op = "update" /\ last'.err = "") =>
       \A v \in DOMAIN versions : versions'[v] = versions[v]]_vars

\* the step is a call of create or update that builds a Version
MintStep == last'.op \in {"create", "update"} /\ last'.err = ""

\* C12: version ids come from one shared sequence: the Version built by a
\* create or update call of any replica gets an id greater than the id of
\* every Version built before it, and no Version's id changes afterwards.
C12_IdsUniqueIncreasing ==
  [][MintStep =>
       /\ Len(versions') = Len(versions) + 1
       /\ \A v \in DOMAIN versions :
            /\ versions[v].version < versions'[Len(versions')].version
            /\ versions'[v].version = versions[v].version]_vars

\* a replica has created a Version without holding the Version another
\* replica created before
C12_Witness ==
  /\ last.op = "create"
  /\ last.version = 2
  /\ ~InLog(last.at, 1)
  /\ versions[1].version # versions[2].version

\* C13: no replica's log holds the same version id more than once.
C13_NoDuplicates ==
  \A r \in DOMAIN replicas :
    \A i, j \in DOMAIN replicas[r].files :
      replicas[r].files[i] = replicas[r].files[j] => i = j

\* a ring of three replicas has drained: each replica was sent each of two
\* Versions by both of its peers and holds each once
C13_Witness ==
  /\ Len(nodes) = 3
  /\ msgs = <<>>
  /\ \A r \in Range(nodes) :
       /\ Cardinality(Peers(r)) = 2
       /\ Len(replicas[r].files) = 2

\* the root Version that version id v descends from by fork
RECURSIVE Root(_)
Root(v) == IF versions[v].parent = null THEN v ELSE Root(versions[v].parent)

\* C14: at every replica the Versions of one object (a root Version and its
\* descendants by fork) are in the log in strictly increasing order of
\* version id.
C14_MonotoneLogs ==
  \A r \in DOMAIN replicas :
    \A i, j \in DOMAIN replicas[r].files :
      (i < j /\ Root(replicas[r].files[i]) = Root(replicas[r].files[j]))
        => replicas[r].files[i] < replicas[r].files[j]

\* C15: broadcast(version) builds exactly one Message per peer of the
\* replica's comms and none to another replica, the Messages it returns are
\* the ones it schedules, and a replica without connections sends nothing.
C15_BroadcastOnePerPeer ==
  [][MintStep =>
       LET r    == last'.at
           id   == sequence'
           sent == last'.sent
       IN  /\ OnePerTarget(sent, r, Peers(r), [kind |-> "version", version |-> id])
           /\ \A i \in DOMAIN sent : sent[i].target # r
           /\ msgs' = msgs \o sent
           /\ replicas[r].comms = <<>> => (sent = <<>> /\ msgs' = msgs)]_vars

\* the middle replica of a line has broadcast a fork to its two peers while
\* the third replica of the run is no peer of the sender of the original
C15_Witness ==
  /\ last.op = "update" /\ last.err = ""
  /\ Len(last.sent) = 2
  /\ \E q \in Range(nodes) : Cardinality(Peers(q)) = 1

\* the step is a call of send by the page
SendStep == last'.op = "send"

\* dst is a key of the comms of replica r
IsPeerId(r, dst) == \E i \in DOMAIN replicas[r].comms : replicas[r].comms[i].key = dst

\* C16: send(payload, peerId, options) with peerId in comms succeeds and
\* schedules exactly one Message, from the caller to that peer, carrying the
\* payload; its delay is options.delay when the caller gives one (0
\* included) and a value of the connection's getLatency() otherwise.
C16_SendSchedulesOne ==
  [][(SendStep /\ IsPeerId(last'.at, last'.args[2])) =>
       LET r       == last'.at
           payload == last'.args[1]
           dst     == last'.args[2]
           options == last'.args[3]
           sent    == last'.sent
       IN  /\ last'.err = ""
           /\ Len(sent) = 1
           /\ msgs' = msgs \o sent
           /\ sent[1].source = r
           /\ replicas[sent[1].target].id = dst
           /\ sent[1].target \in Peers(r)
           /\ sent[1].payload = payload
           /\ sent[1].due = now + sent[1].delay
           /\ IF options # <<>>
                THEN sent[1].delay = options[1]
                ELSE \E i \in DOMAIN replicas[r].comms :
                       /\ replicas[r].comms[i].key = dst
                       /\ sent[1].delay \in getLatency(replicas[r].comms[i].conn)]_vars

\* a Version was sent to a peer with the delay 0 the caller gave
C16_Witness ==
  /\ last.op = "send" /\ last.err = ""
  /\ last.args[1].kind = "version"
  /\ last.args[3] = <<0>>
  /\ last.sent[1].delay = 0
  /\ \E i \in DOMAIN msgs : msgs[i] = last.sent[1]

\* C17: send(payload, peerId, options) with a peerId that is not in the
\* caller's comms fails with UnknownPeerError, schedules no Message and
\* changes no log and no Version.
C17_UnknownPeerError ==
  [][(SendStep /\ ~IsPeerId(last'.at, last'.args[2])) =>
       /\ last'.err = "UnknownPeerError"
       /\ last'.sent = <<>>
       /\ msgs' = msgs
       /\ replicas' = replicas
       /\ versions' = versions]_vars

\* C17, the part the code keeps: a send to an id that is not in the caller's
\* comms throws, schedules no Message and changes no log and no Version.
C17_FailedSendHasNoEffect ==
  [][(SendStep /\ ~IsPeerId(last'.at, last'.args[2])) =>
       /\ last'.err # ""
       /\ last'.sent = <<>>
       /\ msgs' = msgs
       /\ replicas' = replicas
       /\ versions' = versions]_vars

C19_DeliveryToRemovedIsNoOp ==
  [][(last'.op = "recv" /\ last'.at \notin Range(nodes)) =>
       /\ last'.err = ""
       /\ replicas' = replicas
       /\ versions' = versions
       /\ last'.sent = <<>>
       /\ Scheduled(msgs, msgs', last'.msg, <<>>)]_vars

\* the run was loaded and Simulation.clear has ended it
Ended == nodes = <<>> /\ replicas # <<>>

\* C20: once Simulation.clear has ended a run, no step schedules a Message.
C20_NoSchedulingAfterClear ==
  [][Ended => (last'.sent = <<>> /\ Len(msgs') <= Len(msgs))]_vars

\* the Version Messages built so far that carry version id v
Carrying(v) ==
  LET S == {x \in BagToSet(carried) : x[1] = v}
  IN  [x \in S |-> CopiesIn(x, carried)]

\* the directed connections of the topology of the run
DirectedConnections ==
  {x \in Range(nodes) \X Range(nodes) : x[2] \in Peers(x[1])}

\* C29: over the whole run a replica builds at most one Message carrying a
\* given Version for each of its peers, and none for another replica, so the
\* Messages carrying one Version never outnumber the directed connections of
\* the topology.
C29_SentOncePerPeer ==
  /\ \A x \in BagToSet(carried) :
       /\ CopiesIn(x, carried) = 1
       /\ x[3] \in Peers(x[2])
  /\ \A v \in DOMAIN versions :
       BagCardinality(Carrying(v)) <= Cardinality(DirectedConnections)

\* a ring of three replicas has drained and one Version went over four of
\* its six directed connections
C29_Witness ==
  /\ Len(nodes) = 3
  /\ msgs = <<>>
  /\ Cardinality(DirectedConnections) = 6
  /\ \E v \in DOMAIN versions : BagCardinality(Carrying(v)) = 4

EverywhereAndCounted(v) ==
  /\ v \in DOMAIN versions
  /\ \A r \in Range(nodes) : InLog(r, v)
  /\ versions[v].replicas = Len(nodes)
  /\ versions[v].replicated # null

\* C27: in a connected topology of two or more replicas whose pending
\* Messages are all delivered in the end, every Version made by create or
\* update is eventually held by every replica, and from then on its
\* replicaCount is the number of replicas and its replicatedAt is set.
C27_EventuallyEverywhere ==
  <>[](Len(nodes) >= 2 => \A v \in DOMAIN versions : EverywhereAndCounted(v))

\* the Version made by one end of a line of three replicas has reached the
\* other end, two connections away, which completed its count
C27_Witness ==
  /\ Len(nodes) = 3
  /\ last.op = "recv" /\ last.fresh
  /\ Cardinality(Peers(last.at)) = 1
  /\ last.msg.source \notin {r \in Range(nodes) : Cardinality(Peers(r)) = 1}
  /\ EverywhereAndCounted(last.version)

\* C28: after the create and update calls of a run, under fair delivery, a
\* state with no pending Message is reached and kept.
C28_Drains == <>[](msgs = <<>>)

\* a ring of three replicas has drained after duplicates and
\* acknowledgments were delivered
C28_Witness ==
  /\ msgs = <<>>
  /\ last.op = "recv" /\ last.msg.payload.kind = "ACK"
  /\ Cardinality(DirectedConnections) = 6
  /\ versions # <<>>
  /\ \A v \in DOMAIN versions : Cardinality(Holders(v)) = 3

\* C21: the version ids of a run do not depend on the Versions of earlier
\* runs of the page: the first Version created in a run, when every log of
\* the run is empty, gets the id 1 as in the first run.
C21_RunsIsolated ==
  [][(last'.op = "create" /\ \A r \in Range(nodes) : replicas[r].files = <<>>)
       => last'.version = 1]_vars

\* the connection of replica s to replica t in the replicas reps
ConnOf(reps, s, t) ==
  reps[s].comms[CHOOSE i \in DOMAIN reps[s].comms : reps[s].comms[i].conn.target = t].conn

\* C22: the delay getLatency() gives a Message is latency x slowmo on a
\* constant connection and d x slowmo for an integer d of [min, max] on a
\* variable connection with that range; the call leaves the Messages that
\* were pending as they were.
C22_LatencyInRange ==
  [][(last'.op \in {"create", "recv"}) =>
       /\ \A i \in DOMAIN last'.sent :
            LET m == last'.sent[i]
                c == ConnOf(replicas, m.source, m.target)
            IN  /\ (c.type = "constant" /\ Len(c.latency) = 1)
                     => m.delay = c.latency[1] * slowmo
                /\ (c.type = "variable" /\ Len(c.latency) = 2)
                     => \E d \in c.latency[1]..c.latency[2] : m.delay = d * slowmo
       /\ \A j \in DOMAIN msgs :
            \/ msgs[j] = last'.msg
            \/ \E k \in DOMAIN msgs' : msgs'[k] = msgs[j]]_vars

\* C23: loading a well-formed document gives a node without consistency
\* the consistency strong, a link without kind a constant connection, and a
\* link without latency, whatever its kind, connections whose getLatency()
\* is default_latency x slowmo.
C23_DefaultsApply ==
  [][(last'.op = "load" /\ last'.err = "") =>
       LET data == last'.args[1]
       IN  /\ \A i \in DOMAIN data.nodes :
                data.nodes[i].consistency = ""
                  => replicas'[nodes'[i]].consistency = "strong"
           /\ \A k \in DOMAIN data.links :
                LET link == data.links[k]
                    s    == nodes'[link.source + 1]
                    t    == nodes'[link.target + 1]
                IN  \A c \in {ConnOf(replicas', s, t), ConnOf(replicas', t, s)} :
                      /\ link.connection = "" => c.type = "constant"
                      /\ link.latency = <<>>
                           => getLatency(c) = {default_latency * slowmo}]_vars

\* the document loaded last has a link whose source or target is no index of
\* its node list
MalformedLoad ==
  /\ last.op = "load"
  /\ \E k \in DOMAIN last.args[1].links :
       LET link == last.args[1].links[k]
           n    == Len(last.args[1].nodes)
       IN  link.source \notin 0..(n - 1) \/ link.target \notin 0..(n - 1)

\* C24: loading a document in which a link names an undefined node fails
\* with MalformedTopologyError and leaves no replica in the simulation.
C24_MalformedTopologyFatal ==
  MalformedLoad => (last.err = "MalformedTopologyError" /\ nodes = <<>>)

\* fractions x and y are equal; fraction x lies in [0, 1]; fraction x is 0
SameFraction(x, y) == x[1] * y[2] = y[1] * x[2]
InUnitInterval(x) == x[2] > 0 /\ 0 <= x[1] /\ x[1] <= x[2]
IsZero(x) == x[2] > 0 /\ x[1] = 0

\* C25: for every pair of logs A, B the Jaccard distance and the normalized
\* Levenshtein distance reported for (A, B) equal those of (B, A), lie in
\* [0, 1], and are 0 when A and B are the same log.
C25_DistancesSymmetricBounded ==
  report.done =>
    /\ SameFraction(report.jaccard, Jaccard(report.b, report.a))
    /\ SameFraction(report.levenshtein, NormalizedLevenshtein(report.b, report.a))
    /\ InUnitInterval(report.jaccard)
    /\ InUnitInterval(report.levenshtein)
    /\ report.a = report.b => (IsZero(report.jaccard) /\ IsZero(report.levenshtein))

\* two logs of different lengths that share an id, one with a repeat, were
\* compared
C25_Witness ==
  /\ report.done
  /\ Len(report.a) < Len(report.b)
  /\ \E i, j \in DOMAIN report.b : i # j /\ report.b[i] = report.b[j]
  /\ ~IsZero(report.jaccard) /\ report.jaccard[1] < report.jaccard[2]
  /\ ~IsZero(report.levenshtein)

\* C26: two logs that hold the same set of version ids in a different order
\* have Jaccard distance 0 and normalized Levenshtein distance above 0.
C26_SameContentOtherOrder ==
  (report.done /\ report.a # report.b
     /\ {report.a[i] : i \in DOMAIN report.a} = {report.b[i] : i \in DOMAIN report.b})
    => (IsZero(report.jaccard) /\ report.levenshtein[1] > 0 /\ report.levenshtein[2] > 0)

\* the logs [1,2,3] and [1,3,2] were compared
C26_Witness ==
  /\ report.done
  /\ report.a = <<1, 2, 3>>
  /\ report.b = <<1, 3, 2>>
  /\ report.jaccard[1] = 0
  /\ report.levenshtein[1] = 2

\* the (replica, version) pairs of the run, and those in which the replica
\* holds the version
AllPairs == Range(nodes) \X DOMAIN versions
HeldPairs == {x \in AllPairs : InLog(x[1], x[2])}

\* C39: the staleness percentage updateState writes to the legend is the
\* share of (replica, version) pairs in which the replica does not hold the
\* version: 0 when every replica holds every version, and between 0 and 100
\* in a fixed topology.
C39_StalenessIsShareNotHeld ==
  versions # <<>> =>
    /\ legend = ((Cardinality(AllPairs) - Cardinality(HeldPairs)) * 100)
                  \div Cardinality(AllPairs)
    /\ (HeldPairs = AllPairs => legend = 0)
    /\ 0 <= legend /\ legend <= 100

\* C39, the part the code keeps: the figure lies between 0 and 100; it is
\* the share of the pairs in which the replica holds the version.
C39_StalenessIsShareHeld ==
  versions # <<>> =>
    /\ legend = (Cardinality(HeldPairs) * 100) \div Cardinality(AllPairs)
    /\ 0 <= legend /\ legend <= 100

\* C31: in a fixed topology of N replicas every Version's replicaCount starts
\* at 1, never decreases and never exceeds N; replicatedAt starts unset and,
\* once set, keeps its value.
C31_CountAndStampMonotone ==
  [][/\ \A v \in DOMAIN versions' \ DOMAIN versions :
          /\ versions'[v].replicas = 1
          /\ versions'[v].replicated = null
     /\ \A v \in DOMAIN versions :
          /\ v \in DOMAIN versions'
          /\ versions'[v].replicas >= versions[v].replicas
          /\ versions'[v].replicas <= Len(nodes')
          /\ versions[v].replicated # null
               => versions'[v].replicated = versions[v].replicated]_vars

\* in a ring of three replicas a Version that was stamped as replicated
\* earlier has been delivered once more, to a replica that held it
C31_Witness ==
  /\ Len(nodes) = 3
  /\ last.op = "recv" /\ last.version # null /\ ~last.fresh
  /\ versions[last.version].replicas = 3
  /\ versions[last.version].replicated # null
  /\ versions[last.version].replicated < now

\* C32: each replica is the single writer of its own state: a create, update
\* or recv step at replica R leaves the log and the comms of every other
\* replica as they were, and a log changes only in a step of its own replica.
C32_SingleWriter ==
  [][\A q \in DOMAIN replicas :
       /\ (last'.op \in {"create", "update", "recv"} /\ last'.at # q)
            => replicas'[q] = replicas[q]
       /\ replicas'[q].files # replicas[q].files
            => (last'.at = q /\ last'.op \in {"create", "update", "recv"})
       /\ replicas'[q].comms = replicas[q].comms]_vars

\* a replica has stored a Version delivered to it while another replica of
\* the run holds a Version that this one lacks
C32_Witness ==
  /\ last.op = "recv" /\ last.fresh
  /\ \E q \in Range(nodes) \ {last.at} :
       \E v \in DOMAIN versions : InLog(q, v) /\ ~InLog(last.at, v)

\* the Versions of the logs of state (reps, vs) that were forked from p
ChildrenIn(reps, vs, p) ==
  {c \in DOMAIN vs : /\ vs[c].parent = p
                     /\ \E r \in DOMAIN reps :
                          \E i \in DOMAIN reps[r].files : reps[r].files[i] = c}

C34_SenderIsPeer ==
  [][/\ \A i \in DOMAIN msgs :
          msgs[i].payload.kind = "version"
            => /\ msgs[i].source \in Peers(msgs[i].target)
               /\ IsPeerId(msgs[i].target, replicas[msgs[i].source].id)
     /\ (last'.op = "recv" /\ last'.msg.payload.kind = "version")
          => /\ last'.err = ""
             /\ last'.msg.source \in Peers(last'.at)
             /\ last'.sent # <<>>
             /\ last'.sent[Len(last'.sent)].payload.kind = "ACK"
             /\ last'.sent[Len(last'.sent)].target = last'.msg.source]_vars

\* a replica was delivered a Version that a peer forwarded, not the replica
\* that made it, and has acknowledged it to that peer
C34_Witness ==
  /\ last.op = "recv" /\ last.msg.payload.kind = "version"
  /\ last.err = ""
  /\ last.fresh
  /\ \E x \in BagToSet(carried) :
       x[1] = last.version /\ x[3] = last.msg.source /\ x[2] # last.at
  /\ last.sent[Len(last.sent)].target = last.msg.source

\* C36: the fork made by update at replica R carries the creator and the
\* consistency level of the Version it was forked from; when that level is
\* not R's own, the fork's level is not R's level and its creator is not R.
C36_ForkInheritsCreatorAndLevel ==
  [][(last'.op = "update" /\ last'.err = "") =>
       LET r    == last'.at
           orig == versions[last'.version]
           f    == versions'[Len(versions')]
       IN  /\ f.parent = orig.version
           /\ f.creator = orig.creator
           /\ f.level = orig.level
           /\ orig.level # replicas[r].consistency
                => (f.level # replicas'[r].consistency /\ f.creator # r)]_vars

\* a replica has forked a Version it was sent by a replica of another
\* consistency level
C36_Witness ==
  /\ last.op = "update" /\ last.err = ""
  /\ versions[sequence].parent = last.version
  /\ versions[sequence].level # replicas[last.at].consistency
  /\ versions[sequence].level = versions[last.version].level
  /\ \E x \in BagToSet(carried) : x[1] = last.version /\ x[3] = last.at

\* replica s has a connection to replica t in the replicas reps
Connected(reps, s, t) ==
  \E i \in DOMAIN reps[s].comms : reps[s].comms[i].conn.target = t

\* the index of the node that a link end names, given by index or by id
EndIndex(x) == IF x < 0 THEN 0 - 1 - x ELSE x

\* every link of the document names two nodes of the document
WellNamed(data) ==
  \A k \in DOMAIN data.links :
    /\ EndIndex(data.links[k].source) < Len(data.nodes)
    /\ EndIndex(data.links[k].target) < Len(data.nodes)

\* C37: a link may name its source and target by node index or by node id:
\* the load of a document whose links name its nodes, either way, succeeds
\* and connects the two replicas of every link in both directions.
C37_LinksByIdOrIndex ==
  [][(last'.op = "load" /\ WellNamed(last'.args[1])) =>
       LET data == last'.args[1]
       IN  /\ last'.err = ""
           /\ \A k \in DOMAIN data.links :
                LET s == nodes'[EndIndex(data.links[k].source) + 1]
                    t == nodes'[EndIndex(data.links[k].target) + 1]
                IN  Connected(replicas', s, t) /\ Connected(replicas', t, s)]_vars

\* C37, the part the code keeps: the load of a document whose links name
\* their nodes by index connects the two replicas of every link in both
\* directions.
C37_LinksByIndex ==
  [][(last'.op = "load" /\ last'.err = "") =>
       LET data == last'.args[1]
       IN  \A k \in DOMAIN data.links :
             LET s == nodes'[data.links[k].source + 1]
                 t == nodes'[data.links[k].target + 1]
             IN  Connected(replicas', s, t) /\ Connected(replicas', t, s)]_vars

\* the kind and latency of connection c are a combination that a shipped
\* topology has: constant with a number, variable or normal with a pair
Shipped(c) ==
  \/ c.type = "constant" /\ Len(c.latency) = 1
  \/ c.type \in {"variable", "normal"} /\ Len(c.latency) = 2

\* C38: every Message scheduled by create, update or recv over a link of a
\* kind the shipped topologies have, kind normal with a [mean, stddev] pair
\* included, carries a delay that is a number and not negative.
C38_DelayIsNonNegativeNumber ==
  \A i \in DOMAIN msgs :
    Shipped(ConnOf(replicas, msgs[i].source, msgs[i].target))
      => (msgs[i].delay # NaN /\ msgs[i].delay >= 0)

\* C38, the part the code keeps: over constant links with a number and
\* variable links with a pair the delay is a number and not negative.
C38_DelayOfConstantAndVariable ==
  \A i \in DOMAIN msgs :
    LET c == ConnOf(replicas, msgs[i].source, msgs[i].target)
    IN  (Shipped(c) /\ c.type # "normal") => (msgs[i].delay # NaN /\ msgs[i].delay >= 0)

\* the replicas and the Versions with the consistency levels blanked
Blank(reps) == [q \in DOMAIN reps |-> [reps[q] EXCEPT !.consistency = "strong"]]
BlankV(vs) == [v \in DOMAIN vs |-> [vs[v] EXCEPT !.level = ""]]

\* what a run shows apart from the levels: the node list, the logs and
\* connections, the Versions with their replicaCounts, the pending Messages
View(ns, reps, vs, seq, q, t) ==
  [nodes |-> ns, replicas |-> Blank(reps), versions |-> BlankV(vs),
   sequence |-> seq, msgs |-> q, now |-> t]

\* the Messages from r, one per connection of rep, that carry payload
Fanout(rep, r, cs, payload, class, t) ==
  CloneAll(r, cs, 1, Message(r, r, payload, 0, class, t), t)

\* the views that follow view e by a load of the document data, by create
\* at r, by update(v) at r and by the delivery of the Message due next: each
\* is computed from e, which holds no level
AfterLoad(e, data) ==
  LET n     == Len(data.nodes)
      refs  == [i \in 1..n |-> Len(e.replicas) + i]
      built == e.replicas \o [i \in 1..n |-> ReplicaInit(NodeDoc(data.nodes[i].id, "strong"))]
  IN  [e EXCEPT !.nodes = refs, !.replicas = Blank(AddLinks(built, refs, data.links, 1).reps)]

AfterCreate(e, r) ==
  LET id == e.sequence + 1
  IN  {[e EXCEPT !.sequence = id,
                 !.versions = Append(@, VersionInit(0, id, GlobalSelf, "", null, null, e.now)),
                 !.replicas[r].files = Append(@, id),
                 !.msgs = @ \o sent] :
         sent \in Fanout(e.replicas[r], r, Conns(e.replicas[r]),
                         [kind |-> "version", version |-> id], "message", e.now)}

AfterUpdate(e, r, v) ==
  LET id == e.sequence + 1
      o  == [e.versions[v] EXCEPT !.updated = e.now]
      f  == [o EXCEPT !.parent = v, !.version = id, !.replicas = 1, !.replicated = null]
  IN  {[e EXCEPT !.sequence = id,
                 !.versions = Append([i \in DOMAIN e.versions |-> IF i = v THEN o ELSE e.versions[i]], f),
                 !.replicas[r].files = Append(@, id),
                 !.msgs = @ \o sent] :
         sent \in Fanout(e.replicas[r], r, Conns(e.replicas[r]),
                         [kind |-> "version", version |-> id], "message", e.now)}

AfterDeliver(e) ==
  LET k    == NextDue(e.msgs)
      m    == e.msgs[k]
      t    == Max(e.now, m.due)
      r    == m.target
      v    == m.payload.version
      rest == Remove(e.msgs, k)
      new  == m.payload.kind = "version"
                /\ \A i \in DOMAIN e.replicas[r].files : e.replicas[r].files[i] # v
      back == SelectSeq(Conns(e.replicas[r]), LAMBDA c : c.target = m.source)
      on   == SelectSeq(Conns(e.replicas[r]), LAMBDA c : c.target # m.source)
  IN  IF m.payload.kind = "ACK" THEN {[e EXCEPT !.now = t, !.msgs = rest]}
      ELSE {[e EXCEPT !.now = t,
                      !.replicas[r].files = IF new THEN Append(@, v) ELSE @,
                      !.versions[v] = IF new THEN addReplica(@, Len(e.nodes), t) ELSE @,
                      !.msgs = rest \o fwd \o ack] :
              fwd \in (IF new THEN Fanout(e.replicas[r], r, on, m.payload, m.class, t)
                       ELSE {<<>>}),
              ack \in Fanout(e.replicas[r], r, back, AckPayload, "response", t)}

\* C35: the consistency levels influence nothing but the level recorded on
\* the Versions: the logs, connections, replicaCounts and pending Messages
\* after a load, create, update or delivery are those computed from the
\* state with the levels blanked, and every outcome computed that way can
\* happen; so two runs that differ in the levels only and take the same
\* steps agree on them in every state.
C35_LevelsDoNotInterfere ==
  [][LET e  == View(nodes, replicas, versions, sequence, msgs, now)
         e2 == View(nodes', replicas', versions', sequence', msgs', now')
     IN  /\ last'.op = "load" => e2 = AfterLoad(e, [last'.args[1] EXCEPT !.nodes = [i \in DOMAIN @ |-> NodeDoc(@[i].id, "strong")]])
         /\ last'.op = "create" => e2 \in AfterCreate(e, last'.at)
         /\ (last'.op = "update" /\ last'.err = "") => e2 \in AfterUpdate(e, last'.at, last'.version)
         /\ (last'.op = "update" /\ last'.err # "") => e2 = e
         /\ last'.op = "recv" => e2 \in AfterDeliver(e)
         /\ \A r \in Range(nodes) :
              sequence < MaxVersions =>
                \A x \in AfterCreate(e, r) : ENABLED (Create(r) /\ msgs' = x.msgs)
         /\ msgs # <<>> =>
              \A x \in AfterDeliver(e) : ENABLED (Deliver /\ msgs' = x.msgs)]_vars

\* a replica that is not of strong consistency has stored a Version made
\* at another level, has sent it on over a variable link, and its peers are
\* of two more levels
C35_Witness ==
  /\ last.op = "recv" /\ last.fresh
  /\ Len(last.sent) = 2
  /\ replicas[last.at].consistency = "eventual"
  /\ versions[last.version].level = "causal"
  /\ \E q \in Peers(last.at) : replicas[q].consistency = "strong"

====
